---- MODULE Spec2Model ----
(***************************************************************************)
(* NISTDB19Dataset (alphabet_recogniser/datasets/nistdb19.py): the         *)
(* constructor (argument checks, archive integrity / download, the         *)
(* directory walk that collects the samples) and save_to_file /            *)
(* load_from_file.                                                         *)
(***************************************************************************)
EXTENDS Integers, Sequences, FiniteSets, TLC

VARIABLES
    pc,                   \* position of the running call
    err,                  \* the error the constructor raised, "" when none
    root_dir,             \* argument root_dir: "exists", "missing" or "None"
    download,             \* argument download
    size_limit,           \* argument size_limit
    size_limit_per_class, \* argument size_limit_per_class
    data_type,            \* argument data_type / self.data_type
    train,                \* argument train / self.train
    size_per_class,       \* self.size_per_class, the quotient <<num, den>>
    data,                 \* self.data
    targets,              \* self.targets
    arch,                 \* <root>/by_class.zip: "absent", "valid", "corrupt"
    sibling,              \* <root>/by_class: "absent", "file", "dir"
    ans,                  \* the operator's answer to the prompt
    prompted,             \* input() has been called
    removed,              \* the paths os.remove has deleted
    downloaded,           \* download_and_extract_archive has been called
    class_idx,            \* _process: class_idx
    hsf_idx,              \* _process: hsf_idx
    newly_added,          \* _process: newly_added
    dir_newly_added,      \* _add_samples_from_dir: its parameter newly_added
    listing,              \* _add_samples_from_dir: len(os.listdir(img_dir_path))
    img_idx,              \* _add_samples_from_dir: position in the listing
    fs,                   \* directories listed so far -> number of files
    budget,               \* files the file system may still reveal
    files,                \* file system seen by save_to_file / load_from_file
    ret                   \* the last save_to_file / load_from_file call

vars == <<pc, err, root_dir, download, size_limit, size_limit_per_class,
          data_type, train, size_per_class, data, targets, arch, sibling,
          ans, prompted, removed, downloaded, class_idx, hsf_idx,
          newly_added, dir_newly_added, listing, img_idx, fs, budget,
          files, ret>>

ctorArgs == <<root_dir, download, size_limit, size_limit_per_class,
              data_type, train>>
archVars == <<arch, sibling, ans, prompted, removed, downloaded>>
walkVars == <<class_idx, hsf_idx, newly_added, dir_newly_added, listing,
              img_idx, fs, budget>>
fileVars == <<files, ret>>

----------------------------------------------------------------------------
(* Bounds of the model *)

\* most files one directory holds
MaxFiles == 2
\* most files the whole tree holds in the walk specification
MaxTotal == 3
\* most files the whole tree holds in the constructor specification
MaxTotalCtor == 1
\* largest effective per-class limit tried
MaxLimit == 2

----------------------------------------------------------------------------
(* Class map and name conversions *)

\* number of writer partitions, range(0, 8)
NumHsf == 8

folder_map ==
    [digits      |-> [start |-> 48, len |-> 10],
     cap_letters |-> [start |-> 65, len |-> 26],
     low_letters |-> [start |-> 97, len |-> 26]]

DataTypes == DOMAIN folder_map

RangeStart(dt) == folder_map[dt].start

RangeEndPlusOne(dt) == folder_map[dt].start + folder_map[dt].len + 1

\* range(start, start + len) ends before this class code
RangeEnd(dt) == folder_map[dt].start + folder_map[dt].len

HexDigits == <<"0", "1", "2", "3", "4", "5", "6", "7",
               "8", "9", "a", "b", "c", "d", "e", "f">>

RECURSIVE HexStr(_)
\* hex(n)[2:] as the sequence of its characters
HexStr(n) == IF n < 16 THEN <<HexDigits[n + 1]>>
             ELSE HexStr(n \div 16) \o <<HexDigits[(n % 16) + 1]>>

RECURSIVE Str(_)
\* str(n) as the sequence of its characters
Str(n) == IF n < 10 THEN <<HexDigits[n + 1]>>
          ELSE Str(n \div 10) \o <<HexDigits[(n % 10) + 1]>>

HexVal(ch) == CHOOSE d \in 0..15 : HexDigits[d + 1] = ch

RECURSIVE ParseHex(_)
\* int(s, 16): the class code of a class folder name
ParseHex(s) == IF s = <<>> THEN 0
               ELSE ParseHex(SubSeq(s, 1, Len(s) - 1)) * 16 + HexVal(s[Len(s)])

\* the characters of code points 0x30 .. 0x3a, 0x41 .. 0x5b and 0x61 .. 0x7b
Digits == <<"0", "1", "2", "3", "4", "5", "6", "7", "8", "9", ":">>
CapLetters == <<"A", "B", "C", "D", "E", "F", "G", "H", "I", "J", "K", "L", "M",
                "N", "O", "P", "Q", "R", "S", "T", "U", "V", "W", "X", "Y", "Z",
                "[">>
LowLetters == <<"a", "b", "c", "d", "e", "f", "g", "h", "i", "j", "k", "l", "m",
                "n", "o", "p", "q", "r", "s", "t", "u", "v", "w", "x", "y", "z",
                "{">>

CodePoints == (48..58) \cup (65..91) \cup (97..123)

\* chr(code)
Chr(code) == IF code \in 48..58 THEN Digits[code - 47]
             ELSE IF code \in 65..91 THEN CapLetters[code - 64]
             ELSE LowLetters[code - 96]

\* ord(c), the inverse of chr
Ord(c) == CHOOSE code \in CodePoints : Chr(code) = c

----------------------------------------------------------------------------
(* The environment the model enumerates *)

InvalidDataTypes == {"None", "symbols"}

\* answers the operator may type at the prompt
Answers == {"Y", "y", "", "n"}

\* the classes whose directories may hold files: the first and the last of
\* the selected range
PopulatedClasses(dt) == {RangeStart(dt), RangeEnd(dt) - 1}

\* the writer partitions that may hold files
PopulatedHsf == {0, 1, NumHsf - 1}

\* the size limits tried for a data type: effective limits 1 .. MaxLimit,
\* and for the divided limit also totals that are no multiple of the
\* number of classes
SizeLimits(dt, per_class) ==
    IF per_class THEN 1..MaxLimit
    ELSE {k * folder_map[dt].len + r : k \in 1..MaxLimit, r \in {0, 1}}

\* the empty function: no directory listed yet
NoListing == [d \in {} |-> 0]

\* self.size_per_class before __init__ assigns it
Unset == <<0, 0>>

----------------------------------------------------------------------------
(* __init__ *)

\* the same, with the root check dropped
ConstructNoRootCheck ==
    /\ pc = "start"
    /\ IF data_type \notin DataTypes
       THEN /\ pc' = "failed"
            /\ err' = "data_type"
            /\ UNCHANGED <<data, targets, size_per_class>>
       ELSE /\ data' = <<>>
            /\ targets' = <<>>
            /\ size_per_class' =
                   IF size_limit_per_class THEN <<size_limit, 1>>
                   ELSE <<size_limit, folder_map[data_type].len>>
            /\ IF root_dir = "None"
               THEN pc' = "failed" /\ err' = "type_error"
               ELSE pc' = "download" /\ err' = err
    /\ UNCHANGED <<ctorArgs, archVars, walkVars, fileVars>>

\* __init__ up to the call of _process: the data_type check, the fields,
\* the division of the limit, the root check
Construct ==
    /\ pc = "start"
    /\ IF data_type \notin DataTypes
       THEN /\ pc' = "failed"
            /\ err' = "data_type"
            /\ UNCHANGED <<data, targets, size_per_class>>
       ELSE /\ data' = <<>>
            /\ targets' = <<>>
            /\ size_per_class' =
                   IF size_limit_per_class THEN <<size_limit, 1>>
                   ELSE <<size_limit, folder_map[data_type].len>>
            /\ IF root_dir = "None"
               THEN pc' = "failed" /\ err' = "type_error"
               ELSE IF root_dir = "exists"
               THEN pc' = "download" /\ err' = err
               ELSE pc' = "failed" /\ err' = "path"
    /\ UNCHANGED <<ctorArgs, archVars, walkVars, fileVars>>

----------------------------------------------------------------------------
(* _download *)

\* os.path.exists(arch_path) and check_integrity
CheckArchive ==
    /\ pc = "download"
    /\ IF arch = "valid" THEN pc' = "process" /\ err' = err
       ELSE IF arch = "corrupt" THEN pc' = "prompt" /\ err' = err
       ELSE IF ~download THEN pc' = "failed" /\ err' = "not_found"
       ELSE pc' = "fetch" /\ err' = err
    /\ UNCHANGED <<ctorArgs, data, targets, size_per_class, archVars,
                   walkVars, fileVars>>

\* the same, with every answer taken as consent
PromptAlwaysYes ==
    /\ pc = "prompt"
    /\ \E a \in Answers :
          /\ ans' = a
          /\ prompted' = TRUE
          /\ pc' = "remove" /\ err' = err
    /\ UNCHANGED <<ctorArgs, data, targets, size_per_class, arch, sibling,
                   removed, downloaded, walkVars, fileVars>>

\* input('Archive corrupted. Delete and downloading it again [Y/n]? ')
Prompt ==
    /\ pc = "prompt"
    /\ \E a \in Answers :
          /\ ans' = a
          /\ prompted' = TRUE
          /\ IF a \in {"Y", "y", ""}
             THEN pc' = "remove" /\ err' = err
             ELSE pc' = "failed" /\ err' = "corrupted"
    /\ UNCHANGED <<ctorArgs, data, targets, size_per_class, arch, sibling,
                   removed, downloaded, walkVars, fileVars>>

\* os.remove(arch_path); os.remove(arch_path[:len(arch_path)-4]): the second
\* raises when the sibling is missing or is a directory
Remove ==
    /\ pc = "remove"
    /\ arch' = "absent"
    /\ IF sibling = "file"
       THEN /\ sibling' = "absent"
            /\ removed' = removed \cup {"by_class.zip", "by_class"}
            /\ pc' = "fetch" /\ err' = err
       ELSE /\ sibling' = sibling
            /\ removed' = removed \cup {"by_class.zip"}
            /\ pc' = "failed" /\ err' = "os_error"
    /\ UNCHANGED <<ctorArgs, data, targets, size_per_class, ans, prompted,
                   downloaded, walkVars, fileVars>>

\* download_and_extract_archive(url, root_dir, filename, md5): it fetches the
\* archive, verifies it and extracts it, or raises
Fetch ==
    /\ pc = "fetch"
    /\ downloaded' = TRUE
    /\ \E ok \in BOOLEAN :
          IF ok
          THEN /\ arch' = "valid"
               /\ sibling' = "dir"
               /\ pc' = "process" /\ err' = err
          ELSE /\ UNCHANGED <<arch, sibling>>
               /\ pc' = "failed" /\ err' = "download_failed"
    /\ UNCHANGED <<ctorArgs, data, targets, size_per_class, ans, prompted,
                   removed, walkVars, fileVars>>

----------------------------------------------------------------------------
(* _process and _add_samples_from_dir *)

\* os.path.join(root_dir, 'by_class', class_folder_name, hsf_name), or the
\* folder 'train_' + class_folder_name in test mode; root_dir is left out
ImgDirPath(class, hsf) ==
    <<  <<"by_class">>,
        HexStr(class),
        IF train THEN <<"hsf_">> \o Str(hsf)
        ELSE <<"train_">> \o HexStr(class)  >>

\* io.imread(img_path): the decoded image, one value per file
Imread(img_dir_path, img_name) == [dir |-> img_dir_path, name |-> img_name]

\* whether the directory may hold files in the enumerated file systems
Populated(class, hsf) ==
    /\ class \in PopulatedClasses(data_type)
    /\ train => hsf \in PopulatedHsf

\* the same, comparing with the limit rounded down
LimitReachedFloor(n) ==
    /\ size_per_class[2] # 0
    /\ n = size_per_class[1] \div size_per_class[2]

\* the same, the limit being enforced in training mode only
LimitReachedTrainOnly(n) == train /\ n * size_per_class[2] = size_per_class[1]

\* newly_added == self.size_per_class, the limit being the quotient
\* size_per_class[1] / size_per_class[2]
LimitReached(n) == n * size_per_class[2] = size_per_class[1]

\* the value _process passes as newly_added: its own variable, which no
\* statement of _process changes after 'newly_added = 0'
ArgNewlyAdded == newly_added

\* _add_samples_from_dir returns r to _process: in training mode 1 breaks
\* the partition loop and 0 goes on to the next partition; in test mode the
\* value is dropped; after the last partition the next class begins
Return(r) ==
    IF train /\ r = 0 /\ hsf_idx + 1 < NumHsf
    THEN /\ hsf_idx' = hsf_idx + 1
         /\ class_idx' = class_idx
         /\ pc' = "scan"
    ELSE /\ hsf_idx' = 0
         /\ class_idx' = class_idx + 1
         /\ pc' = IF class_idx + 1 < RangeEnd(data_type) THEN "scan"
                  ELSE "done"

\* _process after _download: start of the class loop
BeginProcess ==
    /\ pc = "process"
    /\ class_idx' = RangeStart(data_type)
    /\ hsf_idx' = 0
    /\ newly_added' = 0
    /\ pc' = "scan"
    /\ UNCHANGED <<err, ctorArgs, data, targets, size_per_class, archVars,
                   dir_newly_added, listing, img_idx, fs, budget, fileVars>>

\* the call of _add_samples_from_dir and its os.listdir(img_dir_path): the
\* directory is missing (listdir raises), or it lists n files; with no file
\* the function returns 0 at once
ListDir ==
    /\ pc = "scan"
    /\ LET path == ImgDirPath(class_idx, hsf_idx) IN
       \/ /\ pc' = "failed"
          /\ err' = "scan_failed"
          /\ UNCHANGED <<walkVars>>
       \/ \E n \in 0..(IF Populated(class_idx, hsf_idx)
                       THEN (IF budget < MaxFiles THEN budget ELSE MaxFiles)
                       ELSE 0) :
             /\ fs' = (path :> n) @@ fs
             /\ budget' = budget - n
             /\ listing' = n
             /\ dir_newly_added' = ArgNewlyAdded
             /\ newly_added' = newly_added
             /\ err' = err
             /\ IF n = 0
                THEN img_idx' = 0 /\ Return(0)
                ELSE /\ img_idx' = 1
                     /\ pc' = "imread"
                     /\ UNCHANGED <<class_idx, hsf_idx>>
    /\ UNCHANGED <<ctorArgs, data, targets, size_per_class, archVars,
                   fileVars>>

\* the same, the image appended before it is decoded
AddSampleAppendFirst ==
    /\ pc = "imread"
    /\ \E ok \in BOOLEAN :
          /\ data' = Append(data, Imread(ImgDirPath(class_idx, hsf_idx), img_idx))
          /\ IF ~ok
             THEN /\ pc' = "failed"
                  /\ err' = "decode_failed"
                  /\ UNCHANGED <<targets, walkVars>>
             ELSE /\ targets' = Append(targets, Chr(class_idx))
                  /\ dir_newly_added' = dir_newly_added + 1
                  /\ err' = err
                  /\ UNCHANGED <<newly_added, listing, fs, budget>>
                  /\ IF LimitReached(dir_newly_added + 1)
                     THEN img_idx' = 0 /\ Return(1)
                     ELSE IF img_idx = listing
                     THEN img_idx' = 0 /\ Return(0)
                     ELSE /\ img_idx' = img_idx + 1
                          /\ UNCHANGED <<pc, class_idx, hsf_idx>>
    /\ UNCHANGED <<ctorArgs, size_per_class, archVars, fileVars>>

\* one round of the loop over the listing: imread (which may raise), the
\* two appends, the counter, the comparison with the limit; after the last
\* file the function returns 0
AddSample ==
    /\ pc = "imread"
    /\ \E ok \in BOOLEAN :
          IF ~ok
          THEN /\ pc' = "failed"
               /\ err' = "decode_failed"
               /\ UNCHANGED <<data, targets, walkVars>>
          ELSE /\ data' = Append(data, Imread(ImgDirPath(class_idx, hsf_idx), img_idx))
               /\ targets' = Append(targets, Chr(class_idx))
               /\ dir_newly_added' = dir_newly_added + 1
               /\ err' = err
               /\ UNCHANGED <<newly_added, listing, fs, budget>>
               /\ IF LimitReached(dir_newly_added + 1)
                  THEN img_idx' = 0 /\ Return(1)
                  ELSE IF img_idx = listing
                  THEN img_idx' = 0 /\ Return(0)
                  ELSE /\ img_idx' = img_idx + 1
                       /\ UNCHANGED <<pc, class_idx, hsf_idx>>
    /\ UNCHANGED <<ctorArgs, size_per_class, archVars, fileVars>>

----------------------------------------------------------------------------
(* save_to_file and load_from_file *)

\* the file paths tried: a bare file name, a file in an existing folder, a
\* file in a folder that does not exist
Paths == {[dir |-> d, base |-> "ds.xz"] : d \in {"", "out", "nodir"}}

\* os.path.dirname(filepath)
Dirname(filepath) == filepath.dir

\* os.path.exists(d) for a directory name: the empty name, which dirname
\* gives for a bare file name, does not exist
DirExists(d) == d = "out"

\* the content of a path that holds no file
NoFile == <<-1>>

\* os.path.exists(filepath)
FileExists(filepath) == files[filepath] # NoFile

\* the dataset object compress_pickle serialises (root_dir and the
\* transform, which the walk never writes, are left out)
Object ==
    [data_type |-> data_type, train |-> train,
     size_per_class |-> size_per_class, data |-> data, targets |-> targets]

NoObject ==
    [data_type |-> "", train |-> FALSE, size_per_class |-> Unset,
     data |-> <<>>, targets |-> <<>>]

NoCall ==
    [op |-> "none", dataset |-> "", path |-> [dir |-> "", base |-> ""],
     force |-> FALSE, existed |-> FALSE, outcome |-> "", value |-> NoObject]

DataTypeSeq == <<"cap_letters", "digits", "low_letters">>

DataTypeIndex(dt) == CHOOSE i \in 1..Len(DataTypeSeq) : DataTypeSeq[i] = dt

\* the partition of an image directory: 0 .. 7 for hsf_<n>, 8 for train_<hex>
DirKind(name) == IF name[1] = "hsf_" THEN HexVal(name[2]) ELSE NumHsf

\* the same, the file name lost
EncImageNoName(img) == <<ParseHex(img.dir[2]), DirKind(img.dir[3]), 1>>

\* one image as it is written to the stream
EncImage(img) == <<ParseHex(img.dir[2]), DirKind(img.dir[3]), img.name>>

\* one image as it is read back
DecImage(c, kind, name) ==
    Imread(<<  <<"by_class">>, HexStr(c),
               IF kind < NumHsf THEN <<"hsf_">> \o Str(kind)
               ELSE <<"train_">> \o HexStr(c)  >>, name)

RECURSIVE EncImages(_)
EncImages(imgs) ==
    IF imgs = <<>> THEN <<>> ELSE EncImage(Head(imgs)) \o EncImages(Tail(imgs))

\* the two bytes an lzma stream written by compress_pickle starts with
Magic == <<253, 55>>

\* compress_pickle.dump(dataset, file, compression="lzma"): the stream of
\* numbers written
Dump(obj) ==
    Magic
    \o <<DataTypeIndex(obj.data_type), IF obj.train THEN 1 ELSE 0,
         obj.size_per_class[1], obj.size_per_class[2], Len(obj.data)>>
    \o EncImages(obj.data)
    \o [i \in 1..Len(obj.targets) |-> Ord(obj.targets[i])]

\* whether compress_pickle.load can read the stream
Loadable(bytes) == Len(bytes) >= 7 /\ SubSeq(bytes, 1, 2) = Magic

\* compress_pickle.load(file, compression="lzma") on a loadable stream
Load(bytes) ==
    LET n == bytes[7] IN
    [data_type |-> DataTypeSeq[bytes[3]],
     train |-> bytes[4] = 1,
     size_per_class |-> <<bytes[5], bytes[6]>>,
     data |-> [i \in 1..n |-> DecImage(bytes[7 + 3 * (i - 1) + 1],
                                       bytes[7 + 3 * (i - 1) + 2],
                                       bytes[7 + 3 * (i - 1) + 3])],
     targets |-> [i \in 1..n |-> Chr(bytes[7 + 3 * n + i])]]

\* an older dataset a file may hold before save_to_file is called
OldObject ==
    [data_type |-> "digits", train |-> TRUE, size_per_class |-> <<1, 1>>,
     data |-> <<>>, targets |-> <<>>]

\* what a path may hold before the calls: nothing, an older dataset, or a
\* file that is no lzma stream
PriorContents == {NoFile, Dump(OldObject), <<0>>}

\* save_to_file(dataset, filepath, force_overwrite)
SaveToFile ==
    /\ pc = "done"
    /\ \E dataset \in {"NISTDB19Dataset", "list"}, filepath \in Paths,
          force_overwrite \in BOOLEAN :
          LET call == [op |-> "save", dataset |-> dataset, path |-> filepath,
                       force |-> force_overwrite,
                       existed |-> FileExists(filepath),
                       outcome |-> "", value |-> NoObject]
          IN IF dataset # "NISTDB19Dataset"
             THEN /\ ret' = [call EXCEPT !.outcome = "raised_type"]
                  /\ files' = files
             ELSE IF ~DirExists(Dirname(filepath))
             THEN /\ ret' = [call EXCEPT !.outcome = "raised_folder"]
                  /\ files' = files
             ELSE IF ~force_overwrite /\ FileExists(filepath)
             THEN /\ ret' = [call EXCEPT !.outcome = "skipped"]
                  /\ files' = files
             ELSE /\ ret' = [call EXCEPT !.outcome = "saved"]
                  /\ files' = [files EXCEPT ![filepath] = Dump(Object)]
    /\ UNCHANGED <<pc, err, ctorArgs, data, targets, size_per_class,
                   archVars, walkVars>>

\* load_from_file(filepath)
LoadFromFile ==
    /\ pc = "done"
    /\ \E filepath \in Paths :
          LET call == [op |-> "load", dataset |-> "", path |-> filepath,
                       force |-> FALSE, existed |-> FileExists(filepath),
                       outcome |-> "", value |-> NoObject]
          IN ret' = IF ~FileExists(filepath)
                    THEN [call EXCEPT !.outcome = "raised_missing"]
                    ELSE IF ~Loadable(files[filepath])
                    THEN [call EXCEPT !.outcome = "raised_unpickle"]
                    ELSE [call EXCEPT !.outcome = "returned",
                                      !.value = Load(files[filepath])]
    /\ UNCHANGED <<pc, err, ctorArgs, data, targets, size_per_class,
                   archVars, walkVars, files>>

----------------------------------------------------------------------------
(* Specifications of the constructor *)

InitObject ==
    /\ pc = "start"
    /\ err = ""
    /\ size_per_class = Unset
    /\ data = <<>>
    /\ targets = <<>>
    /\ ans = ""
    /\ prompted = FALSE
    /\ removed = {}
    /\ downloaded = FALSE
    /\ class_idx = 0
    /\ hsf_idx = 0
    /\ newly_added = 0
    /\ dir_newly_added = 0
    /\ listing = 0
    /\ img_idx = 0
    /\ fs = NoListing
    /\ files = NoListing
    /\ ret = NoCall

\* the walk: every argument the walk reads varies, the root exists and the
\* archive is present and verified
InitWalk ==
    /\ InitObject
    /\ root_dir = "exists"
    /\ download = FALSE
    /\ arch = "valid"
    /\ sibling = "dir"
    /\ data_type \in DataTypes
    /\ train \in BOOLEAN
    /\ size_limit_per_class \in BOOLEAN
    /\ size_limit \in SizeLimits(data_type, size_limit_per_class)
    /\ budget = MaxTotal

NextWalk == Construct \/ CheckArchive \/ BeginProcess \/ ListDir \/ AddSample

SpecWalk == InitWalk /\ [][NextWalk]_vars

\* the whole constructor: the arguments and the state of the root, of the
\* archive and of its extracted sibling vary
Init ==
    /\ InitObject
    /\ root_dir \in {"exists", "missing", "None"}
    /\ download \in BOOLEAN
    /\ arch \in {"absent", "valid", "corrupt"}
    /\ sibling \in {"absent", "file", "dir"}
    /\ data_type \in DataTypes \cup InvalidDataTypes
    /\ train \in BOOLEAN
    /\ size_limit_per_class \in BOOLEAN
    /\ size_limit \in IF size_limit_per_class THEN {1} ELSE {10}
    /\ budget = MaxTotalCtor

Next ==
    \/ Construct
    \/ CheckArchive
    \/ Prompt
    \/ Remove
    \/ Fetch
    \/ BeginProcess
    \/ ListDir
    \/ AddSample

Spec == Init /\ [][Next]_vars

----------------------------------------------------------------------------
(* Specification of save_to_file / load_from_file *)

\* a constructed dataset: up to MaxFiles samples of the first and of the
\* last class of its range, each within the limit; and a file system whose
\* paths hold nothing, an older dataset or a foreign file
InitSave ==
    /\ pc = "done"
    /\ err = ""
    /\ root_dir = "exists"
    /\ download = FALSE
    /\ arch = "valid"
    /\ sibling = "dir"
    /\ ans = ""
    /\ prompted = FALSE
    /\ removed = {}
    /\ downloaded = FALSE
    /\ data_type \in DataTypes
    /\ train \in BOOLEAN
    /\ size_limit_per_class = TRUE
    /\ size_limit = MaxFiles
    /\ size_per_class = <<size_limit, 1>>
    /\ \E n0, n1 \in 0..MaxFiles :
          LET c0 == RangeStart(data_type)
              c1 == RangeEnd(data_type) - 1
              p0 == ImgDirPath(c0, 0)
              p1 == ImgDirPath(c1, 0)
          IN /\ fs = (p0 :> n0) @@ (p1 :> n1)
             /\ data = [k \in 1..n0 |-> Imread(p0, k)]
                       \o [k \in 1..n1 |-> Imread(p1, k)]
             /\ targets = [k \in 1..n0 |-> Chr(c0)] \o [k \in 1..n1 |-> Chr(c1)]
    /\ class_idx = RangeEnd(data_type)
    /\ hsf_idx = 0
    /\ newly_added = 0
    /\ dir_newly_added = 0
    /\ listing = 0
    /\ img_idx = 0
    /\ budget = 0
    /\ files \in {f \in [Paths -> PriorContents] :
                     \A p \in Paths : p.dir = "nodir" => f[p] = NoFile}
    /\ ret = NoCall

NextSave == SaveToFile \/ LoadFromFile

SpecSave == InitSave /\ [][NextSave]_vars

----------------------------------------------------------------------------
(* __len__, __getitem__ and what the claims measure *)

\* __len__
Length == Len(data)

\* __getitem__(idx) with transform None, idx counted from 0
GetItem(idx) == <<data[idx + 1], targets[idx + 1]>>

\* the classes whose loop round is over
Completed(c) ==
    /\ data_type \in DataTypes
    /\ class_idx # 0
    /\ c \in RangeStart(data_type)..(class_idx - 1)

\* the number of samples labelled with class c
Count(c) == Cardinality({i \in 1..Len(targets) : targets[i] = Chr(c)})

RECURSIVE SumCounts(_, _)
SumCounts(from, to) ==
    IF from > to THEN 0 ELSE Count(from) + SumCounts(from + 1, to)

\* the samples of class c, in dataset order
SamplesOf(c) == SelectSeq(data, LAMBDA img : img.dir[2] = HexStr(c))

\* the number of samples taken from one directory
DirCount(path) == Cardinality({i \in 1..Len(data) : data[i].dir = path})

\* the files of one directory in listing order, as imread decodes them
DirFiles(path) ==
    IF path \in DOMAIN fs THEN [k \in 1..fs[path] |-> Imread(path, k)]
    ELSE <<>>

RECURSIVE ClassFiles(_, _)
\* the files of partitions hsf .. hsf_7 of class c, in scanning order, as far
\* as the walk listed them.  A partition the walk never lists follows a
\* partition that alone held as many files as the limit, so the listed
\* partitions hold fewer files than a number N only if the class does.
ClassFiles(c, hsf) ==
    IF hsf >= NumHsf THEN <<>>
    ELSE DirFiles(ImgDirPath(c, hsf)) \o ClassFiles(c, hsf + 1)

\* the effective per-class limit is the integer n
LimitIs(n) == n * size_per_class[2] = size_per_class[1]

Min(a, b) == IF a < b THEN a ELSE b

----------------------------------------------------------------------------
(* Claims about the walk, under SpecWalk *)

\* C1: after a successful construction with train=true and an integer
\* effective per-class limit, every class holds at most that many samples
\* and length() is the sum of the per-class counts.
C1_PerClassCountWithinLimit ==
    (pc = "done" /\ train /\ size_per_class[1] % size_per_class[2] = 0) =>
        /\ \A c \in RangeStart(data_type)..(RangeEnd(data_type) - 1) :
              Count(c) * size_per_class[2] <= size_per_class[1]
        /\ Length = SumCounts(RangeStart(data_type), RangeEnd(data_type) - 1)

\* C2: with train=true, size_limit_per_class=true and size_limit=N, a class
\* whose partitions hold at least N files gets exactly N samples, the first
\* N files met in the order hsf_0 .. hsf_7.
C2_ExactlyFirstN ==
    (pc = "done" /\ train /\ size_limit_per_class) =>
        \A c \in RangeStart(data_type)..(RangeEnd(data_type) - 1) :
            Len(ClassFiles(c, 0)) >= size_limit =>
                SamplesOf(c) = SubSeq(ClassFiles(c, 0), 1, size_limit)

\* C7: every label stored is the character of a class code of the selected
\* data type: 0x30 .. 0x39 for digits, 0x41 .. 0x5a for cap_letters,
\* 0x61 .. 0x7a for low_letters.
C7_LabelsInRange ==
    \A i \in 1..Len(targets) :
        /\ data_type = "digits" => Ord(targets[i]) \in 48..57
        /\ data_type = "cap_letters" => Ord(targets[i]) \in 65..90
        /\ data_type = "low_letters" => Ord(targets[i]) \in 97..122

\* C7 witness: a finished dataset holding the first and the last letter
C7_Witness ==
    /\ pc = "done"
    /\ data_type = "low_letters"
    /\ \E i, j \in 1..Len(targets) : targets[i] = "a" /\ targets[j] = "z"

\* C8: images and labels have the same length and index i of both belongs
\* to the same sample, in every state of the walk, after construction and
\* in the partial dataset a failed scan leaves.
C8_ParallelSequences ==
    /\ Len(data) = Len(targets)
    /\ \A i \in 1..Len(data) : targets[i] = Chr(ParseHex(data[i].dir[2]))

\* C8 witness: a scan that failed at an undecodable image after it had
\* appended samples
C8_Witness ==
    /\ pc = "failed"
    /\ err = "decode_failed"
    /\ Len(data) >= 2

\* C9 as stated: in test mode every file of train_<hex> is collected, the
\* limit notwithstanding.
C9_TestModeUnlimited ==
    ~train =>
        \A c \in CodePoints :
            Completed(c) => Count(c) = fs[ImgDirPath(c, 0)]

\* C9 amended: in test mode only train_<hex> is scanned, and the limit is
\* enforced inside it: a class gets the first min(files, limit) files when
\* the limit is a positive integer, and every file when it is not.
C9_TestModeLimitedInFolder ==
    ~train =>
        \A c \in CodePoints :
            Completed(c) =>
                LET path == ImgDirPath(c, 0)
                    n == fs[path]
                IN /\ DOMAIN fs \subseteq
                          {ImgDirPath(k, 0) : k \in CodePoints}
                   /\ \A L \in 1..n :
                          LimitIs(L) => SamplesOf(c) = SubSeq(DirFiles(path), 1, L)
                   /\ (\A L \in 1..n : ~LimitIs(L)) =>
                          SamplesOf(c) = DirFiles(path)

\* C9 witness: a test-mode class whose folder holds more files than the
\* limit
C9_Witness ==
    /\ ~train
    /\ pc = "done"
    /\ \E c \in CodePoints :
          /\ Completed(c)
          /\ LimitIs(1)
          /\ fs[ImgDirPath(c, 0)] = 2
          /\ Count(c) = 1

----------------------------------------------------------------------------
(* Claims about the whole constructor, under Spec *)

\* nothing of _download or of the walk has taken place
NothingDone ==
    /\ ~prompted
    /\ removed = {}
    /\ ~downloaded
    /\ fs = NoListing
    /\ data = <<>>
    /\ targets = <<>>

\* C3 as stated: a missing root makes construction fail with the "path
\* doesn't exist" error whatever the other arguments are, before any
\* archive check, prompt, download or sample collection.
C3_MissingRootPathError ==
    root_dir = "missing" =>
        /\ pc \in {"start", "failed"}
        /\ pc = "failed" => err = "path"
        /\ NothingDone

\* C3 amended: a missing root makes construction fail before any archive
\* check, prompt, download or sample collection; the error is the "path
\* doesn't exist" error when data_type is one of the three keys, and the
\* data_type error otherwise.
C3_MissingRootFails ==
    root_dir = "missing" =>
        /\ pc \in {"start", "failed"}
        /\ pc = "failed" =>
              err = IF data_type \in {"digits", "cap_letters", "low_letters"}
                    THEN "path" ELSE "data_type"
        /\ NothingDone

\* C3 witness: the path error raised although a download was asked for and
\* a corrupt archive is there
C3_Witness ==
    /\ root_dir = "missing"
    /\ pc = "failed"
    /\ err = "path"
    /\ download
    /\ arch = "corrupt"

\* C6: deletion, and a download after a checksum mismatch, happen only
\* after the operator consented; a refusal ends in the corruption error with
\* nothing deleted, downloaded or collected; an archive that matches its
\* checksum is followed by no prompt, deletion or download.
C6_ConsentBeforeRecovery ==
    /\ [](removed # {} => prompted /\ ans \in {"Y", "y", ""})
    /\ []((downloaded /\ prompted) => ans \in {"Y", "y", ""})
    /\ []((prompted /\ ans \notin {"Y", "y", ""}) =>
             /\ pc = "failed"
             /\ err = "corrupted"
             /\ arch = "corrupt"
             /\ removed = {}
             /\ ~downloaded
             /\ data = <<>>
             /\ targets = <<>>)
    /\ (arch = "valid") => [](~prompted /\ removed = {} /\ ~downloaded
                               /\ arch = "valid")

\* C6 witness: a consented recovery that deleted both files, downloaded
\* again and went on to a finished dataset
C6_Witness ==
    /\ pc = "done"
    /\ prompted
    /\ ans = "y"
    /\ removed = {"by_class.zip", "by_class"}
    /\ downloaded

----------------------------------------------------------------------------
(* Claims about save_to_file / load_from_file, under SpecSave *)

\* C4: save_to_file on a path that holds a file, without force_overwrite,
\* leaves the file unchanged and returns without raising; a file is replaced
\* only when force_overwrite is true or no file was there.
C4_NoOverwriteWithoutForce ==
    [][/\ (/\ ret'.op = "save"
           /\ ret' # ret
           /\ ret'.dataset = "NISTDB19Dataset"
           /\ ret'.existed
           /\ ~ret'.force)
          => (ret'.outcome = "skipped" /\ files' = files)
       /\ \A p \in Paths :
             files'[p] # files[p] =>
                 (ret'.op = "save" /\ ret'.path = p
                  /\ (ret'.force \/ files[p] = NoFile))]_vars

====
